---- MODULE Spec2Model ----
(***************************************************************************)
(* Model of tiler_shim.c: the LD_PRELOAD shim that intercepts ioctl(),     *)
(* rewrites DRM dumb-buffer allocation into OMAP TILER allocation, sets    *)
(* the rotation property of every plane, swaps the display geometry and    *)
(* tracks buffers / framebuffers / exported descriptors so that cleanup()  *)
(* can release them at process exit.                                       *)
(*                                                                         *)
(* The kernel driver is the environment.  Its answers are a function of    *)
(* its object tables (planes, properties, live buffers) and of a set of    *)
(* fault points chosen per intercepted call; everything the shim does with *)
(* those answers is translated from the C source.                          *)
(***************************************************************************)
EXTENDS Integers, Sequences, FiniteSets, Bags, TLC

\* ------------------------------------------------------------------------
\* Program constants
\* ------------------------------------------------------------------------
MAX_BUFFERS == 32

FIXED_WIDTH == 8192

PLANES_CAP == 16

SWEEP_FDS == 128

\* <drm/omap_drm.h>, <drm/drm_mode.h>: flag values named at their use
OMAP_BO_SCANOUT == 1

OMAP_BO_WC == 2

OMAP_BO_TILED_16 == 512

OMAP_BO_TILED_32 == 768

DRM_MODE_ROTATE_270 == 8

\* ------------------------------------------------------------------------
\* Bounds of the model
\* ------------------------------------------------------------------------
\* intercepted calls explored from the initial state
MaxOps == 3

\* calls that precede the observed call in the specification that draws
\* the observed call's inputs and the driver's faults from the wide sets
MaxPrefix == 1

\* threads that can trigger cleanup() concurrently
NumThreads == 2

\* ------------------------------------------------------------------------
\* Input domains
\* ------------------------------------------------------------------------
\* open DRM channels (file descriptors) of the application
Channels == {3, 4}

\* what an uninitialised gem_new.handle can hold after a failed allocation:
\* a value that is also a valid handle, or one that never is
GarbageHandles == {1, 99}

\* what uninitialised planes[] entries can hold: no object, or a real plane
GarbagePlanes == {0, 31}

\* driver object tables: plane ids, their property ids, property names.
\* Plane 31 lists "rotation" second, plane 32 has no property of that exact
\* name, plane 33 lists "zpos" before "rotation", plane 34 lists "rotation"
\* first.
DrvPlanes == <<31, 32, 33, 34>>

DrvProps(plane) ==
    CASE plane = 31 -> <<5, 6, 7>>
      [] plane = 32 -> <<8, 9>>
      [] plane = 33 -> <<5, 6>>
      [] plane = 34 -> <<6>>
      [] OTHER -> <<>>

DrvPropName(prop) ==
    CASE prop = 5 -> "zpos"
      [] prop = 6 -> "rotation"
      [] prop = 7 -> "alpha"
      [] prop = 8 -> "rotation_lock"
      [] prop = 9 -> "rot"
      [] OTHER -> ""

\* one errno value per failing driver request, so that they can be told apart
DrvErrno(req) ==
    CASE req = "OMAP_GEM_NEW" -> "ENOMEM"
      [] req = "SET_CLIENT_CAP" -> "EOPNOTSUPP"
      [] req = "GETPLANERESOURCES" -> "EFAULT"
      [] req = "OBJ_GETPROPERTIES" -> "ENOENT"
      [] req = "GETPROPERTY" -> "ENOENT2"
      [] req = "ATOMIC" -> "EBUSY"
      [] req = "DESTROY_DUMB" -> "EINVAL"
      [] req = "RMFB" -> "ENOENT3"
      [] req = "PRIME_HANDLE_TO_FD" -> "EMFILE"
      [] OTHER -> "EIO"

\* ------------------------------------------------------------------------
\* State
\* ------------------------------------------------------------------------
VARIABLES
    init_done,          \* int init_done
    libc_ioctl,         \* the resolved real entry point, or "NULL"
    open_buffers,       \* struct buffer_list_item open_buffers[MAX_BUFFERS]
    open_framebuffers,  \* struct buffer_list_item open_framebuffers[MAX_BUFFERS]
    handle_fd,          \* int handle_fd[MAX_BUFFERS]
    cleanup_started,    \* volatile sig_atomic_t cleanup_started
    errno,              \* the caller-visible out-of-band error code
    drv,                \* the driver and the process's descriptor table
    pstate,             \* "running", "exited" or "crashed"
    pc,                 \* per thread: where it is inside cleanup()
    last,               \* the last intercepted call: request, result, driver calls
    hist,               \* history: calls made, destroy requests seen by the driver,
                        \* entries added to the tables in the order of their insertion
    wide,               \* whether the last call drew its inputs from the wide sets
    adding,             \* per thread: the allocation it is in the middle of
    sigdisp             \* the process's signal dispositions

vars == <<init_done, libc_ioctl, open_buffers, open_framebuffers, handle_fd,
          cleanup_started, errno, drv, pstate, pc, last, hist, wide, adding,
          sigdisp>>

Slots == 0 .. (MAX_BUFFERS - 1)

Threads == 1 .. NumThreads

UnsetItem == [fd |-> -1, handle |-> -1]

\* static storage is zero-initialised until init() runs
ZeroTable == [i \in Slots |-> [fd |-> 0, handle |-> 0]]

ZeroFds == [i \in Slots |-> 0]

Least(S) == CHOOSE i \in S : \A j \in S : i <= j

\* ------------------------------------------------------------------------
\* Resource tracker
\* ------------------------------------------------------------------------
\* faulty variant: a full table evicts its first entry instead of dropping the new one
add_buffer_evict(tbl, fd, handle) ==
    LET free == {i \in Slots : tbl[i].fd = -1}
    IN  [tbl EXCEPT ![IF free = {} THEN 0 ELSE Least(free)] =
            [fd |-> fd, handle |-> handle]]

add_buffer(tbl, fd, handle) ==
    LET free == {i \in Slots : tbl[i].fd = -1}
    IN  IF free = {} THEN tbl
        ELSE [tbl EXCEPT ![Least(free)] = [fd |-> fd, handle |-> handle]]

add_framebuffer(tbl, fd, handle) ==
    LET free == {i \in Slots : tbl[i].fd = -1}
    IN  IF free = {} THEN tbl
        ELSE [tbl EXCEPT ![Least(free)] = [fd |-> fd, handle |-> handle]]

add_handle_fd(tbl, fd) ==
    LET hit == {i \in Slots : tbl[i] = -1 \/ tbl[i] = fd}
    IN  IF hit = {} THEN tbl
        ELSE [tbl EXCEPT ![Least(hit)] = fd]

remove_buffer(tbl, handle) ==
    LET hit == {i \in Slots : tbl[i].handle = handle}
    IN  IF hit = {} THEN tbl
        ELSE [tbl EXCEPT ![Least(hit)] = UnsetItem]

remove_framebuffer(tbl, handle) ==
    LET hit == {i \in Slots : tbl[i].handle = handle}
    IN  IF hit = {} THEN tbl
        ELSE [tbl EXCEPT ![Least(hit)] = UnsetItem]

\* ------------------------------------------------------------------------
\* The driver behind the real ioctl()/close()
\* ------------------------------------------------------------------------
\* A context cx threads through one intercepted call: the driver's tables,
\* errno, and the log of the requests that reached the driver.
\*   cx.d      driver tables: live (fd,handle) buffers, next handle per
\*             channel, live (fd,id) framebuffers, next framebuffer id,
\*             open descriptors, next descriptor, the CRTC mode
\*   cx.errno  errno
\*   cx.calls  sequence of [req, fd, a, st, out]
\* F: what the driver fails during one intercepted call (out of memory,
\* feature not supported, ...): F.kinds, the request codes it fails whatever
\* their argument, and F.props, the properties whose descriptor it does not
\* hand out
PlaneIds == {DrvPlanes[i] : i \in 1 .. Len(DrvPlanes)}

\* whether the driver accepts the request, faults aside
DrvAccepts(d, fd, req, a) ==
    CASE req = "DESTROY_DUMB" -> <<fd, a>> \in d.live
      [] req = "RMFB" -> <<fd, a>> \in d.fbs
      [] req = "ADDFB" -> <<fd, a.handle>> \in d.live
      [] req = "PRIME_HANDLE_TO_FD" -> <<fd, a.handle>> \in d.live
      [] req = "OBJ_GETPROPERTIES" -> a \in PlaneIds
      [] req = "GETPROPERTY" -> DrvPropName(a) # ""
      [] req = "ATOMIC" -> a.obj \in PlaneIds
      [] OTHER -> TRUE

\* what the driver writes back on success
DrvOut(d, fd, req, a) ==
    CASE req = "OMAP_GEM_NEW" -> d.next[fd]
      [] req = "ADDFB" -> d.nextFb
      [] req = "PRIME_HANDLE_TO_FD" -> d.nextFd
      [] req = "GETPLANERESOURCES" -> DrvPlanes
      [] req = "OBJ_GETPROPERTIES" -> DrvProps(a)
      [] req = "GETPROPERTY" -> DrvPropName(a)
      [] req = "GETCRTC" -> d.mode
      [] OTHER -> 0

\* the driver's tables after a successful request
DrvAfter(d, fd, req, a) ==
    CASE req = "OMAP_GEM_NEW" ->
            [d EXCEPT !.live = @ \cup {<<fd, d.next[fd]>>}, !.next[fd] = @ + 1]
      [] req = "DESTROY_DUMB" -> [d EXCEPT !.live = @ \ {<<fd, a>>}]
      [] req = "ADDFB" ->
            [d EXCEPT !.fbs = @ \cup {<<fd, d.nextFb>>}, !.nextFb = @ + 1]
      [] req = "RMFB" -> [d EXCEPT !.fbs = @ \ {<<fd, a>>}]
      [] req = "PRIME_HANDLE_TO_FD" ->
            [d EXCEPT !.open = @ \cup {d.nextFd}, !.nextFd = @ + 1]
      [] req = "SETCRTC" -> [d EXCEPT !.mode = a]
      [] OTHER -> d

\* the driver's answer, logged: status 0, or -1 with errno set
Answered(cx, fd, req, a, ok, out) ==
    [st  |-> IF ok THEN 0 ELSE -1,
     out |-> out,
     cx  |-> [d     |-> IF ok THEN DrvAfter(cx.d, fd, req, a) ELSE cx.d,
              errno |-> IF ok THEN cx.errno ELSE DrvErrno(req),
              calls |-> Append(cx.calls,
                          [req |-> req, fd |-> fd, a |-> a,
                           st |-> IF ok THEN 0 ELSE -1, out |-> out])]]

Answer(cx, fd, req, a, ok) ==
    Answered(cx, fd, req, a, ok, IF ok THEN DrvOut(cx.d, fd, req, a) ELSE 0)

NoFaults == [kinds |-> {}, props |-> {}]

Faulted(F, req, a) ==
    \/ req \in F.kinds
    \/ req = "GETPROPERTY" /\ a \in F.props

\* one call through the real entry point
RealIoctl(cx, F, fd, req, a) ==
    Answer(cx, fd, req, a, ~Faulted(F, req, a) /\ DrvAccepts(cx.d, fd, req, a))

\* close(2): succeeds on an open descriptor only; gives the context after it
Closed(cx, fd, ok) ==
    [d     |-> IF ok THEN [cx.d EXCEPT !.open = @ \ {fd}] ELSE cx.d,
     errno |-> IF ok THEN cx.errno ELSE "EBADF",
     calls |-> Append(cx.calls,
                 [req |-> "close", fd |-> fd, a |-> 0,
                  st |-> IF ok THEN 0 ELSE -1, out |-> 0])]

RealClose(cx, fd) == Closed(cx, fd, fd \in cx.d.open)

\* ------------------------------------------------------------------------
\* init()
\* ------------------------------------------------------------------------
\* the tracking tables as init() leaves them: reset on the first call only
init(tbls) ==
    IF init_done = 1 THEN tbls
    ELSE [open_buffers      |-> [i \in Slots |-> UnsetItem],
          open_framebuffers |-> [i \in Slots |-> UnsetItem],
          handle_fd         |-> [i \in Slots |-> -1]]

Tables ==
    [open_buffers      |-> open_buffers,
     open_framebuffers |-> open_framebuffers,
     handle_fd         |-> handle_fd]

\* Handles, identifiers and descriptors are kernel idr values, below 2^31:
\* the __u32 -> int conversions at the tracker calls and at the return of
\* get_rotation_property_key() keep their value.

\* ------------------------------------------------------------------------
\* Rotation property setter
\* ------------------------------------------------------------------------
\* the loops carry their state as a record: the loop variable i, the context
\* cx and what the loop has produced so far
\* faulty variant: compares the first eight characters only
IsRotationPrefix(name) == name \in {"rotation", "rotation_lock"}

\* strcmp(get_prop.name, "rotation") == 0
IsRotation(name) == name = "rotation"

RECURSIVE PropLoop(_, _, _, _)
\* r: the answer to DRM_IOCTL_MODE_GETPROPERTY for properties[s.i]
PropStep(F, fd, properties, s, r) ==
    IF r.st # 0 THEN [ret |-> r.st, cx |-> r.cx]
    ELSE IF IsRotation(r.out) THEN [ret |-> properties[s.i], cx |-> r.cx]
    ELSE PropLoop(F, fd, properties, [i |-> s.i + 1, cx |-> r.cx])

PropLoop(F, fd, properties, s) ==
    IF s.i > Len(properties) THEN [ret |-> -1, cx |-> s.cx]
    ELSE PropStep(F, fd, properties, s,
                  RealIoctl(s.cx, F, fd, "GETPROPERTY", properties[s.i]))

\* r: the answer to DRM_IOCTL_MODE_OBJ_GETPROPERTIES
PropsListed(F, fd, r) ==
    IF r.st # 0 THEN [ret |-> r.st, cx |-> r.cx]
    ELSE PropLoop(F, fd, r.out, [i |-> 1, cx |-> r.cx])

get_rotation_property_key(cx, F, fd, plane) ==
    PropsListed(F, fd, RealIoctl(cx, F, fd, "OBJ_GETPROPERTIES", plane))

\* whether the plane loop goes on to the atomic commit
CommitWanted(rot_prop) == ~(rot_prop < 0)

AtomicRequest(plane_id, rot_prop) ==
    [obj |-> plane_id, prop |-> rot_prop, value |-> DRM_MODE_ROTATE_270]

\* the per-plane loop of the allocation path; rots logs each iteration's
\* plane_id and rot_prop
RECURSIVE PlaneLoop(_, _, _, _)
\* k: what get_rotation_property_key() returned for planes[s.i]
PlaneStep(F, fd, planes, s, k) ==
    PlaneLoop(F, fd, planes,
        [i    |-> s.i + 1,
         cx   |-> IF CommitWanted(k.ret)
                  THEN RealIoctl(k.cx, F, fd, "ATOMIC",
                                 AtomicRequest(planes[s.i], k.ret)).cx
                  ELSE k.cx,
         rots |-> Append(s.rots, [plane |-> planes[s.i], rot_prop |-> k.ret])])

PlaneLoop(F, fd, planes, s) ==
    IF s.i > Len(planes) THEN s
    ELSE PlaneStep(F, fd, planes, s,
                   get_rotation_property_key(s.cx, F, fd, planes[s.i]))

\* ------------------------------------------------------------------------
\* Buffer allocation transformer (the DRM_IOCTL_MODE_CREATE_DUMB branch)
\* ------------------------------------------------------------------------
\* faulty variant: the pitch from the requested bits per pixel
PitchFromBpp(bpp) == (bpp \div 8) * FIXED_WIDTH

TilingFlags(bpp) ==
    (IF bpp = 16 THEN OMAP_BO_TILED_16 ELSE OMAP_BO_TILED_32)
        + OMAP_BO_WC + OMAP_BO_SCANOUT

Pitch(bpp) == IF bpp = 16 THEN 2 * FIXED_WIDTH ELSE 4 * FIXED_WIDTH

\* orig->size = orig->pitch * orig->height: a product of two __u32, which
\* wraps modulo 2^32.  The pitch is a multiple of FIXED_WIDTH, so the size is
\* kept in units of FIXED_WIDTH bytes, where 2^32 bytes are SIZE_WRAP units.
SIZE_WRAP == 524288

SizeUnits(bpp, height) == ((Pitch(bpp) \div FIXED_WIDTH) * height) % SIZE_WRAP

GemNewRequest(orig) ==
    [width |-> FIXED_WIDTH, height |-> orig.height, flags |-> TilingFlags(orig.bpp)]

\* gem_new.handle after the request: written by the driver on success, else
\* whatever the uninitialised local held (garbH)
GemHandle(g, garbH) == IF g.st = 0 THEN g.out ELSE garbH

\* the identifiers the plane loop reads: count_planes entries of planes[16];
\* an entry the driver did not write holds whatever was there (garbP)
PlanesRead(pr, garbP) ==
    [i \in 1 .. (IF pr.st = 0 THEN Len(pr.out) ELSE PLANES_CAP) |->
        IF pr.st = 0 /\ i <= PLANES_CAP /\ i <= Len(pr.out)
        THEN pr.out[i] ELSE garbP]

\* faulty variant: the status of the last driver request of the branch
CreateDumbLastStatus(result, pl) == pl.cx.calls[Len(pl.cx.calls)].st

\* the status the branch returns: result, the status of the tiled allocation
CreateDumbResult(result, pl) == result

\* the branch from the write-back of handle / pitch / size to its return;
\* g: the answer to DRM_IOCTL_OMAP_GEM_NEW, pl: the finished plane loop
CreateDumbDone(orig, g, handle, pl) ==
    [result |-> CreateDumbResult(g.st, pl),
     handle |-> handle,
     orig   |-> [orig EXCEPT !.handle = handle,
                             !.pitch = Pitch(orig.bpp),
                             !.size_units = SizeUnits(orig.bpp, orig.height)],
     rots   |-> pl.rots,
     cx     |-> pl.cx]

\* pr: the answer to DRM_IOCTL_MODE_GETPLANERESOURCES
SetRotation(F, fd, pr, garbP) ==
    PlaneLoop(F, fd, PlanesRead(pr, garbP), [i |-> 1, cx |-> pr.cx, rots |-> <<>>])

\* cap: the answer to DRM_IOCTL_SET_CLIENT_CAP (its status is not looked at)
EnumeratePlanes(F, fd, cap, garbP) ==
    SetRotation(F, fd, RealIoctl(cap.cx, F, fd, "GETPLANERESOURCES", PLANES_CAP), garbP)

AfterGemNew(F, fd, orig, g, garbH, garbP) ==
    CreateDumbDone(orig, g, GemHandle(g, garbH),
        EnumeratePlanes(F, fd, RealIoctl(g.cx, F, fd, "SET_CLIENT_CAP", 1), garbP))

create_dumb(cx, F, fd, orig, garbH, garbP) ==
    AfterGemNew(F, fd, orig,
                RealIoctl(cx, F, fd, "OMAP_GEM_NEW", GemNewRequest(orig)),
                garbH, garbP)

\* ------------------------------------------------------------------------
\* Geometry transform
\* ------------------------------------------------------------------------
\* faulty variant: the exchange without the temporary
SwapDisplayNoTemp(crtc) ==
    [crtc EXCEPT !.mode.hdisplay = crtc.mode.vdisplay,
                 !.mode.vdisplay = crtc.mode.vdisplay]

SwapDisplay(crtc) ==
    LET temp == crtc.mode.hdisplay
    IN  [crtc EXCEPT !.mode.hdisplay = crtc.mode.vdisplay,
                     !.mode.vdisplay = temp]

\* ------------------------------------------------------------------------
\* cleanup(): the four loops of the body
\* ------------------------------------------------------------------------
\* loop state s: the loop variable i, the context cx, the table tbl, and
\* crashed once a call went through the unresolved libc_ioctl pointer
RECURSIVE CloseTracked(_, _)
CloseTracked(hf, s) ==
    IF s.i >= MAX_BUFFERS THEN s.cx
    ELSE IF hf[s.i] = -1 THEN CloseTracked(hf, [i |-> s.i + 1, cx |-> s.cx])
    ELSE CloseTracked(hf, [i |-> s.i + 1, cx |-> RealClose(s.cx, hf[s.i])])

RECURSIVE RemoveFramebuffers(_, _)
RemoveFramebuffers(libc, s) ==
    IF s.i < 0 THEN [cx |-> s.cx, tbl |-> s.tbl, crashed |-> FALSE]
    ELSE IF s.tbl[s.i].fd = -1 THEN RemoveFramebuffers(libc, [s EXCEPT !.i = @ - 1])
    ELSE IF libc = "NULL" THEN [cx |-> s.cx, tbl |-> s.tbl, crashed |-> TRUE]
    ELSE RemoveFramebuffers(libc,
            [i   |-> s.i - 1,
             cx  |-> RealIoctl(s.cx, NoFaults, s.tbl[s.i].fd, "RMFB", s.tbl[s.i].handle).cx,
             tbl |-> [s.tbl EXCEPT ![s.i].handle = -1]])

RECURSIVE DestroyBuffers(_, _)
DestroyBuffers(libc, s) ==
    IF s.i < 0 THEN [cx |-> s.cx, tbl |-> s.tbl, crashed |-> FALSE]
    ELSE IF s.tbl[s.i].fd = -1 THEN DestroyBuffers(libc, [s EXCEPT !.i = @ - 1])
    ELSE IF libc = "NULL" THEN [cx |-> s.cx, tbl |-> s.tbl, crashed |-> TRUE]
    ELSE DestroyBuffers(libc,
            [i   |-> s.i - 1,
             cx  |-> RealIoctl(s.cx, NoFaults, s.tbl[s.i].fd, "DESTROY_DUMB",
                               s.tbl[s.i].handle).cx,
             tbl |-> s.tbl])

\* for (i = 0; i < 128; i++) close(i): every descriptor is closed once, so
\* each close succeeds exactly on a descriptor that was open before the loop
CloseSweep(cx) ==
    LET swept == 0 .. (SWEEP_FDS - 1)
    IN  [d     |-> [cx.d EXCEPT !.open = @ \ swept],
         errno |-> IF swept \subseteq cx.d.open THEN cx.errno ELSE "EBADF",
         calls |-> cx.calls \o
                   [k \in 1 .. SWEEP_FDS |->
                      [req |-> "close", fd |-> k - 1, a |-> 0,
                       st |-> IF (k - 1) \in cx.d.open THEN 0 ELSE -1, out |-> 0]]]

\* ------------------------------------------------------------------------
\* Bookkeeping shared by the actions
\* ------------------------------------------------------------------------
Cx0 == [d |-> drv, errno |-> errno, calls |-> <<>>]

\* the destroy-buffer requests of a call log, as a bag of <<by, fd, handle>>
DestroyBag(calls, by) ==
    LET idx  == {i \in 1 .. Len(calls) : calls[i].req = "DESTROY_DUMB"}
        key(i) == <<by, calls[i].fd, calls[i].a>>
    IN  [k \in {key(i) : i \in idx} |-> Cardinality({i \in idx : key(i) = k})]

\* the process is alive: a thread can be inside ioctl() whatever the other
\* threads are doing, cleanup() included
Running == pstate = "running"

\* ------------------------------------------------------------------------
\* Signal dispositions
\* ------------------------------------------------------------------------
\* the termination-class signals init() and signal() look at, and one other
TermSignals ==
    {"SIGFPE", "SIGILL", "SIGSEGV", "SIGBUS", "SIGABRT", "SIGSYS", "SIGTERM",
     "SIGINT", "SIGQUIT"}

Signals == TermSignals \cup {"SIGUSR1"}

\* faulty variant: installs the handler whatever the current disposition
register_handler_always(old) == "signal_handler"

\* the disposition of a signal after register_handler(signum)
register_handler(old) == IF old = "SIG_DFL" THEN "signal_handler" ELSE old

\* the dispositions as init() leaves them: the nine registrations, once
init_signals(disp) ==
    IF init_done = 1 THEN disp
    ELSE [sg \in Signals |->
            IF sg \in TermSignals THEN register_handler(disp[sg]) ELSE disp[sg]]

\* the entry an intercepted call added to a tracking table, if it added one
Added(req, fd, argOut, tb) ==
    IF req = "CREATE_DUMB" /\ tb.open_buffers # init(Tables).open_buffers
    THEN <<[tbl |-> "buf", fd |-> fd, handle |-> argOut.handle]>>
    ELSE IF req = "ADDFB" /\ tb.open_framebuffers # init(Tables).open_framebuffers
    THEN <<[tbl |-> "fb", fd |-> fd, handle |-> argOut.fb_id]>>
    ELSE <<>>

\* what every intercepted ioctl() leaves behind on return
Return(req, fd, argIn, argOut, ret, cx, rots, tb, obl) ==
    /\ init_done' = 1
    /\ libc_ioctl' = "real"
    /\ open_buffers' = tb.open_buffers
    /\ open_framebuffers' = tb.open_framebuffers
    /\ handle_fd' = tb.handle_fd
    /\ errno' = cx.errno
    /\ drv' = cx.d
    /\ last' = [req |-> req, fd |-> fd, argIn |-> argIn, argOut |-> argOut,
                ret |-> ret, calls |-> cx.calls, rots |-> rots]
    /\ hist' = [hist EXCEPT !.ops = @ + 1,
                            !.destroys = @ (+) DestroyBag(cx.calls, "app"),
                            !.obliged = @ \cup obl,
                            !.adds = @ \o Added(req, fd, argOut, tb)]
    /\ sigdisp' = init_signals(sigdisp)
    /\ UNCHANGED <<cleanup_started, pstate, pc>>

\* the default delegation at the end of ioctl(): r is the real entry
\* point's answer, whose status is returned
Forwarded(req, fd, argIn, argOut, r, tb) ==
    Return(req, fd, argIn, argOut, r.st, r.cx, <<>>, tb, {})

\* ------------------------------------------------------------------------
\* ioctl(): one action per request code
\* ------------------------------------------------------------------------
\* t0: the tables after init(); c: the finished allocation branch
CreateDumbReturn(fd, orig, t0, c) ==
    Return("CREATE_DUMB", fd, orig, c.orig, c.result, c.cx, c.rots,
           [t0 EXCEPT !.open_buffers = add_buffer(@, fd, c.handle)],
           IF c.result = 0 /\ (\E i \in Slots : t0.open_buffers[i].fd = -1)
           THEN {<<fd, c.handle>>} ELSE {})

Ioctl_CREATE_DUMB(fd, orig, F, garbH, garbP) ==
    /\ Running
    /\ CreateDumbReturn(fd, orig, init(Tables),
                        create_dumb(Cx0, F, fd, orig, garbH, garbP))

Ioctl_DESTROY_DUMB(fd, handle) ==
    /\ Running
    /\ Forwarded("DESTROY_DUMB", fd, handle, handle,
                 RealIoctl(Cx0, NoFaults, fd, "DESTROY_DUMB", handle),
                 [init(Tables) EXCEPT !.open_buffers = remove_buffer(@, handle)])

Ioctl_RMFB(fd, id) ==
    /\ Running
    /\ Forwarded("RMFB", fd, id, id,
                 RealIoctl(Cx0, NoFaults, fd, "RMFB", id),
                 [init(Tables) EXCEPT
                    !.open_framebuffers = remove_framebuffer(@, id)])

Ioctl_SETCRTC(fd, crtc, F) ==
    /\ Running
    /\ Forwarded("SETCRTC", fd, crtc, SwapDisplay(crtc),
                 RealIoctl(Cx0, F, fd, "SETCRTC", SwapDisplay(crtc)),
                 init(Tables))

\* the argument block as the driver leaves it: written on success only
Written(arg, r) == IF r.st = 0 THEN r.out ELSE arg

GetCrtcReturn(fd, crtc, r) ==
    Forwarded("GETCRTC", fd, crtc, SwapDisplay(Written(crtc, r)), r, init(Tables))

Ioctl_GETCRTC(fd, crtc, F) ==
    /\ Running
    /\ GetCrtcReturn(fd, crtc, RealIoctl(Cx0, F, fd, "GETCRTC", crtc))

\* cmd: [handle, fb_id]; the driver writes fb_id on success
AddFbReturn(fd, cmd, out, r) ==
    Forwarded("ADDFB", fd, cmd, out, r,
              [init(Tables) EXCEPT
                 !.open_framebuffers = add_framebuffer(@, fd, out.fb_id)])

AddFbAnswered(fd, cmd, r) ==
    AddFbReturn(fd, cmd, [cmd EXCEPT !.fb_id = Written(cmd.fb_id, r)], r)

Ioctl_ADDFB(fd, cmd, F) ==
    /\ Running
    /\ AddFbAnswered(fd, cmd, RealIoctl(Cx0, F, fd, "ADDFB", cmd))

\* orig: [handle, fd]; the driver writes fd on success
PrimeReturn(fd, orig, out, r) ==
    Forwarded("PRIME_HANDLE_TO_FD", fd, orig, out, r,
              [init(Tables) EXCEPT !.handle_fd = add_handle_fd(@, out.fd)])

PrimeAnswered(fd, orig, r) ==
    PrimeReturn(fd, orig, [orig EXCEPT !.fd = Written(orig.fd, r)], r)

Ioctl_PRIME_HANDLE_TO_FD(fd, orig, F) ==
    /\ Running
    /\ PrimeAnswered(fd, orig, RealIoctl(Cx0, F, fd, "PRIME_HANDLE_TO_FD", orig))

\* every other request code: forwarded, the argument block untouched by the shim
OtherReturn(fd, req, a, r) == Forwarded(req, fd, a, Written(a, r), r, init(Tables))

Ioctl_other(fd, req, a, F) ==
    /\ Running
    /\ OtherReturn(fd, req, a, RealIoctl(Cx0, F, fd, req, a))

\* ------------------------------------------------------------------------
\* cleanup(), run to completion by the thread that leaves the process
\* ------------------------------------------------------------------------
\* r3: the destroy loop's outcome; then the sweep of descriptors 0..127
AfterDestroy(ofb, r3) ==
    [ran |-> TRUE,
     cx |-> IF r3.crashed THEN r3.cx ELSE CloseSweep(r3.cx),
     open_framebuffers |-> ofb,
     crashed |-> r3.crashed]

\* faulty variant: a failed remove-framebuffer request ends the body
AfterRmfbStop(tb, libc, r2) ==
    AfterDestroy(r2.tbl,
        IF r2.crashed \/ (\E i \in 1 .. Len(r2.cx.calls) :
                            r2.cx.calls[i].req = "RMFB" /\ r2.cx.calls[i].st # 0)
        THEN r2
        ELSE DestroyBuffers(libc,
                [i |-> MAX_BUFFERS - 1, cx |-> r2.cx, tbl |-> tb.open_buffers]))

\* r2: the remove-framebuffer loop's outcome; then the destroy loop
AfterRmfb(tb, libc, r2) ==
    AfterDestroy(r2.tbl,
        IF r2.crashed THEN r2
        ELSE DestroyBuffers(libc,
                [i |-> MAX_BUFFERS - 1, cx |-> r2.cx, tbl |-> tb.open_buffers]))

CleanupBody(cx, tb, libc) ==
    AfterRmfb(tb, libc,
        RemoveFramebuffers(libc,
            [i   |-> MAX_BUFFERS - 1,
             cx  |-> CloseTracked(tb.handle_fd, [i |-> 0, cx |-> cx]),
             tbl |-> tb.open_framebuffers]))

cleanup(cx, tb, libc, started) ==
    IF started = 1
    THEN [ran |-> FALSE, cx |-> cx, open_framebuffers |-> tb.open_framebuffers,
          crashed |-> FALSE]
    ELSE CleanupBody(cx, tb, libc)

\* c: what cleanup() did
Terminated(req, code, c) ==
    /\ cleanup_started' = 1
    /\ open_framebuffers' = c.open_framebuffers
    /\ errno' = c.cx.errno
    /\ drv' = c.cx.d
    /\ pstate' = IF c.crashed THEN "crashed" ELSE "exited"
    /\ last' = [req |-> req, fd |-> -1, argIn |-> 0, argOut |-> 0,
                ret |-> code, calls |-> c.cx.calls, rots |-> <<>>]
    /\ hist' = [hist EXCEPT
                  !.destroys = @ (+) DestroyBag(c.cx.calls, "cleanup"),
                  !.bodyRuns = @ + (IF c.ran THEN 1 ELSE 0)]
    /\ UNCHANGED <<init_done, libc_ioctl, open_buffers, handle_fd, pc, sigdisp>>

\* exit(code): the destructor runs cleanup(), then the process is gone
Terminate(req, code) ==
    /\ Running
    /\ Terminated(req, code, cleanup(Cx0, Tables, libc_ioctl, cleanup_started))

\* return from main() or exit() called by the application
Exit == Terminate("exit", 0)

\* the delivery of a signal: signal_handler() calls exit(1) where it is
\* installed, the default disposition ends the process at once; a handler of
\* the application or an ignored signal leaves the shim's state alone
Deliver(signum) ==
    /\ sigdisp[signum] \in {"signal_handler", "SIG_DFL"}
    /\ IF sigdisp[signum] = "signal_handler"
       THEN Terminate("signal", 1)
       ELSE /\ Running
            /\ pstate' = "killed"
            /\ UNCHANGED <<init_done, libc_ioctl, open_buffers, open_framebuffers,
                           handle_fd, cleanup_started, errno, drv, pc, last, hist,
                           sigdisp>>

\* a termination-class signal
Signal == Deliver("SIGTERM")

\* the dispositions after the intercepted signal(signum, handler)
signal(disp, signum, handler) ==
    [disp EXCEPT ![signum] =
        IF handler # "SIG_DFL" THEN handler
        ELSE IF signum \in TermSignals THEN "signal_handler"
        ELSE handler]

\* a call of the application that only touches the dispositions
SignalReturn(req, signum, handler, disp) ==
    /\ Running
    /\ sigdisp' = disp
    /\ last' = [req |-> req, fd |-> -1,
                argIn |-> [signum |-> signum, handler |-> handler],
                argOut |-> 0, ret |-> 0, calls |-> <<>>, rots |-> <<>>]
    /\ hist' = [hist EXCEPT !.ops = @ + 1]
    /\ UNCHANGED <<init_done, libc_ioctl, open_buffers, open_framebuffers,
                   handle_fd, cleanup_started, errno, drv, pstate, pc>>

\* the application calls signal(), which the shim intercepts
Call_signal(signum, handler) ==
    SignalReturn("signal()", signum, handler, signal(sigdisp, signum, handler))

\* the application calls sigaction(), which goes to libc directly
Call_sigaction(signum, handler) ==
    SignalReturn("sigaction()", signum, handler,
                 [sigdisp EXCEPT ![signum] = handler])

\* ------------------------------------------------------------------------
\* cleanup() step by step, for triggers on several threads
\* ------------------------------------------------------------------------
StepLog(calls) == IF last.req = "cleanup" THEN last.calls \o calls ELSE calls

\* one step of the body on thread t: runs is 1 on the step that enters the body
StepDone(t, to, cx, runs) ==
    /\ pc' = [pc EXCEPT ![t] = to]
    /\ errno' = cx.errno
    /\ drv' = cx.d
    /\ last' = [req |-> "cleanup", fd |-> -1, argIn |-> 0, argOut |-> 0,
                ret |-> 0, calls |-> StepLog(cx.calls), rots |-> <<>>]
    /\ hist' = [hist EXCEPT !.destroys = @ (+) DestroyBag(cx.calls, "cleanup"),
                            !.bodyRuns = @ + runs]

\* if (cleanup_started) return;
CleanupTest(t) ==
    /\ pstate = "running" /\ pc[t] = "idle"
    /\ pc' = [pc EXCEPT ![t] = IF cleanup_started = 1 THEN "done" ELSE "set"]
    /\ UNCHANGED <<init_done, libc_ioctl, open_buffers, open_framebuffers,
                   handle_fd, cleanup_started, errno, drv, pstate, last, hist>>

\* cleanup_started = 1;
CleanupSet(t) ==
    /\ pstate = "running" /\ pc[t] = "set"
    /\ cleanup_started' = 1
    /\ pc' = [pc EXCEPT ![t] = "close"]
    /\ UNCHANGED <<init_done, libc_ioctl, open_buffers, open_framebuffers,
                   handle_fd, errno, drv, pstate, last, hist>>

CleanupClose(t) ==
    /\ pstate = "running" /\ pc[t] = "close"
    /\ StepDone(t, "rmfb", CloseTracked(handle_fd, [i |-> 0, cx |-> Cx0]), 1)
    /\ UNCHANGED <<init_done, libc_ioctl, open_buffers, open_framebuffers,
                   handle_fd, cleanup_started, pstate>>

\* r: a loop's outcome; a call through the unresolved pointer ends the process
LoopDone(t, to, r) ==
    /\ StepDone(t, to, r.cx, 0)
    /\ pstate' = IF r.crashed THEN "crashed" ELSE pstate

RmfbDone(t, r) ==
    /\ LoopDone(t, "destroy", r)
    /\ open_framebuffers' = r.tbl

CleanupRmfb(t) ==
    /\ pstate = "running" /\ pc[t] = "rmfb"
    /\ RmfbDone(t, RemoveFramebuffers(libc_ioctl,
                  [i |-> MAX_BUFFERS - 1, cx |-> Cx0, tbl |-> open_framebuffers]))
    /\ UNCHANGED <<init_done, libc_ioctl, open_buffers, handle_fd, cleanup_started>>

CleanupDestroy(t) ==
    /\ pstate = "running" /\ pc[t] = "destroy"
    /\ LoopDone(t, "sweep",
                DestroyBuffers(libc_ioctl,
                    [i |-> MAX_BUFFERS - 1, cx |-> Cx0, tbl |-> open_buffers]))
    /\ UNCHANGED <<init_done, libc_ioctl, open_buffers, open_framebuffers,
                   handle_fd, cleanup_started>>

CleanupSweep(t) ==
    /\ pstate = "running" /\ pc[t] = "sweep"
    /\ StepDone(t, "done", CloseSweep(Cx0), 0)
    /\ UNCHANGED <<init_done, libc_ioctl, open_buffers, open_framebuffers,
                   handle_fd, cleanup_started, pstate>>

\* cleanup() has returned on thread t: its exit() ends the process
ProcessExit(t) ==
    /\ pstate = "running" /\ pc[t] = "done"
    /\ pstate' = "exited"
    /\ UNCHANGED <<init_done, libc_ioctl, open_buffers, open_framebuffers,
                   handle_fd, cleanup_started, errno, drv, pc, last, hist>>

\* ------------------------------------------------------------------------
\* Initial state: static storage, nothing resolved, nothing tracked
\* ------------------------------------------------------------------------
Mode800 == [hdisplay |-> 800, vdisplay |-> 480, htotal |-> 928, vtotal |-> 525,
            clock |-> 29232]

Mode1080 == [hdisplay |-> 1920, vdisplay |-> 1080, htotal |-> 2200, vtotal |-> 1125,
             clock |-> 148500]

Crtc(m) == [crtc_id |-> 50, fb_id |-> 0, x |-> 0, y |-> 0, mode_valid |-> 1, mode |-> m]

Drv0 ==
    [live   |-> {},
     next   |-> [c \in Channels |-> 1],
     fbs    |-> {},
     nextFb |-> 41,
     open   |-> {0, 1, 2} \cup Channels,
     nextFd |-> 5,
     mode   |-> Crtc(Mode800)]

Last0 == [req |-> "none", fd |-> -1, argIn |-> 0, argOut |-> 0, ret |-> 0,
          calls |-> <<>>, rots |-> <<>>]

\* no allocation in flight
NoAdd == [fd |-> -1, argIn |-> 0, argOut |-> 0, result |-> 0, handle |-> -1,
          calls |-> <<>>, rots |-> <<>>, i |-> -1]

Hist0 == [ops |-> 0, destroys |-> EmptyBag, obliged |-> {}, bodyRuns |-> 0,
          adds |-> <<>>]

Init ==
    /\ init_done = 0
    /\ libc_ioctl = "NULL"
    /\ open_buffers = ZeroTable
    /\ open_framebuffers = ZeroTable
    /\ handle_fd = ZeroFds
    /\ cleanup_started = 0
    /\ errno = "0"
    /\ drv = Drv0
    /\ pstate = "running"
    /\ pc = [t \in Threads |-> "idle"]
    /\ last = Last0
    /\ hist = Hist0
    /\ wide = FALSE
    /\ adding = [t \in Threads |-> NoAdd]
    /\ sigdisp = [sg \in Signals |-> "SIG_DFL"]

\* ------------------------------------------------------------------------
\* Inputs of the application and answers of the driver
\* ------------------------------------------------------------------------
Orig(w, h, bpp) ==
    [width |-> w, height |-> h, bpp |-> bpp, handle |-> 0, pitch |-> 0, size_units |-> 0]

\* the garbage an allocation can read, given the faults
GarbH(F) == IF "OMAP_GEM_NEW" \in F.kinds THEN GarbageHandles ELSE {0}

GarbP(F) == IF "GETPLANERESOURCES" \in F.kinds THEN GarbagePlanes ELSE {0}

AppHandles == {1, 2}

AppFbIds == {41, 42}

InFbIds == {0, 41}

InPrimeFds == {-1, 0}

OneFault(req) == {NoFaults, [kinds |-> {req}, props |-> {}]}

AllocFaults ==
    {[kinds |-> K, props |-> P] :
        K \in SUBSET {"OMAP_GEM_NEW", "SET_CLIENT_CAP", "GETPLANERESOURCES",
                      "OBJ_GETPROPERTIES", "GETPROPERTY", "ATOMIC"},
        P \in SUBSET {5}}

WideOrigs ==
    {Orig(800, 480, 32), Orig(1920, 1080, 16), Orig(1024, 600, 8),
     Orig(640, 131072, 32)}

WideModes == {Mode800, Mode1080}

\* ------------------------------------------------------------------------
\* The program, one thread issuing requests, then leaving
\* ------------------------------------------------------------------------
Next ==
    \/ /\ hist.ops < MaxOps
       /\ UNCHANGED <<wide, adding>>
       /\ \E fd \in Channels :
            \/ \E F \in OneFault("OMAP_GEM_NEW") : \E gh \in GarbH(F) :
                 Ioctl_CREATE_DUMB(fd, Orig(800, 480, 32), F, gh, 0)
            \/ \E h \in AppHandles : Ioctl_DESTROY_DUMB(fd, h)
            \/ \E h \in AppHandles, id \in InFbIds :
                 Ioctl_ADDFB(fd, [handle |-> h, fb_id |-> id], NoFaults)
            \/ \E id \in AppFbIds : Ioctl_RMFB(fd, id)
            \/ \E h \in AppHandles, in \in InPrimeFds :
                 Ioctl_PRIME_HANDLE_TO_FD(fd, [handle |-> h, fd |-> in], NoFaults)
            \/ \E F \in OneFault("SETCRTC") : Ioctl_SETCRTC(fd, Crtc(Mode1080), F)
            \/ \E F \in OneFault("GETCRTC") : Ioctl_GETCRTC(fd, Crtc(Mode1080), F)
            \/ \E F \in OneFault("OTHER") : Ioctl_other(fd, "OTHER", 0, F)
    \/ Exit /\ UNCHANGED <<wide, adding>>
    \/ Signal /\ UNCHANGED <<wide, adding>>

Spec == Init /\ [][Next]_vars

\* ------------------------------------------------------------------------
\* One observed call with wide inputs, after a short history
\* ------------------------------------------------------------------------
\* up to MaxPrefix allocate / destroy calls, then one call of any request
\* code whose arguments and driver faults range over the wide sets
NextWide ==
    \/ /\ hist.ops < MaxPrefix /\ ~wide
       /\ UNCHANGED <<wide, adding>>
       /\ \E fd \in Channels :
            \/ \E F \in OneFault("OMAP_GEM_NEW") : \E gh \in GarbH(F) :
                 Ioctl_CREATE_DUMB(fd, Orig(800, 480, 32), F, gh, 0)
            \/ Ioctl_DESTROY_DUMB(fd, 1)
    \/ /\ ~wide
       /\ wide' = TRUE
       /\ UNCHANGED adding
       /\ \E fd \in Channels :
            \/ \E orig \in WideOrigs, F \in AllocFaults :
                 \E gh \in GarbH(F), gp \in GarbP(F) :
                   Ioctl_CREATE_DUMB(fd, orig, F, gh, gp)
            \/ \E h \in AppHandles : Ioctl_DESTROY_DUMB(fd, h)
            \/ \E h \in AppHandles, id \in InFbIds, F \in OneFault("ADDFB") :
                 Ioctl_ADDFB(fd, [handle |-> h, fb_id |-> id], F)
            \/ \E id \in AppFbIds : Ioctl_RMFB(fd, id)
            \/ \E h \in AppHandles, in \in InPrimeFds,
                  F \in OneFault("PRIME_HANDLE_TO_FD") :
                 Ioctl_PRIME_HANDLE_TO_FD(fd, [handle |-> h, fd |-> in], F)
            \/ \E m \in WideModes, F \in OneFault("SETCRTC") :
                 Ioctl_SETCRTC(fd, Crtc(m), F)
            \/ \E m \in WideModes, F \in OneFault("GETCRTC") :
                 Ioctl_GETCRTC(fd, Crtc(m), F)
            \/ \E req \in {"OTHER", "SET_CLIENT_CAP"} : \E F \in OneFault(req) :
                 Ioctl_other(fd, req, 0, F)
            \/ \E plane \in {31, 0} : Ioctl_other(fd, "OBJ_GETPROPERTIES", plane, NoFaults)
            \/ \E prop \in {6, 10} : Ioctl_other(fd, "GETPROPERTY", prop, NoFaults)

SpecWide == Init /\ [][NextWide]_vars

\* ------------------------------------------------------------------------
\* cleanup() triggered on several threads
\* ------------------------------------------------------------------------
\* every thread invokes cleanup(), its statements interleaved with the
\* others' and with up to MaxPrefix calls of the application, which give
\* cleanup() something to release when they come first
NextCleanup ==
    \/ /\ hist.ops < MaxPrefix
       /\ UNCHANGED <<wide, adding>>
       /\ \E fd \in Channels :
            \/ Ioctl_CREATE_DUMB(fd, Orig(800, 480, 32), NoFaults, 0, 0)
            \/ Ioctl_ADDFB(fd, [handle |-> 1, fb_id |-> 0], NoFaults)
            \/ Ioctl_PRIME_HANDLE_TO_FD(fd, [handle |-> 1, fd |-> -1], NoFaults)
    \/ \E t \in Threads : CleanupTest(t) /\ UNCHANGED <<wide, adding, sigdisp>>
    \/ \E t \in Threads : CleanupSet(t) /\ UNCHANGED <<wide, adding, sigdisp>>
    \/ \E t \in Threads : CleanupClose(t) /\ UNCHANGED <<wide, adding, sigdisp>>
    \/ \E t \in Threads : CleanupRmfb(t) /\ UNCHANGED <<wide, adding, sigdisp>>
    \/ \E t \in Threads : CleanupDestroy(t) /\ UNCHANGED <<wide, adding, sigdisp>>
    \/ \E t \in Threads : CleanupSweep(t) /\ UNCHANGED <<wide, adding, sigdisp>>
    \/ \E t \in Threads : ProcessExit(t) /\ UNCHANGED <<wide, adding, sigdisp>>

SpecCleanup == Init /\ [][NextCleanup]_vars

\* ------------------------------------------------------------------------
\* The tracking tables at capacity
\* ------------------------------------------------------------------------
\* The state after MAX_BUFFERS - 1 successful allocations on channel 3, each
\* followed by a successful add-framebuffer request for the new buffer: one
\* free slot is left in each table.  The history restarts at this state.
Prefilled == 0 .. (MAX_BUFFERS - 2)

FirstFbId == Drv0.nextFb

InitTable ==
    /\ init_done = 1
    /\ libc_ioctl = "real"
    /\ open_buffers = [i \in Slots |->
            IF i \in Prefilled THEN [fd |-> 3, handle |-> i + 1] ELSE UnsetItem]
    /\ open_framebuffers = [i \in Slots |->
            IF i \in Prefilled THEN [fd |-> 3, handle |-> FirstFbId + i] ELSE UnsetItem]
    /\ handle_fd = [i \in Slots |-> -1]
    /\ cleanup_started = 0
    /\ errno = "0"
    /\ drv = [Drv0 EXCEPT !.live = {<<3, i + 1>> : i \in Prefilled},
                          !.next[3] = MAX_BUFFERS,
                          !.fbs = {<<3, FirstFbId + i>> : i \in Prefilled},
                          !.nextFb = FirstFbId + MAX_BUFFERS - 1]
    /\ pstate = "running"
    /\ pc = [t \in Threads |-> "idle"]
    /\ last = Last0
    /\ hist = [Hist0 EXCEPT
                 !.obliged = {<<3, i + 1>> : i \in Prefilled},
                 !.adds = [k \in 1 .. (MAX_BUFFERS - 1) |->
                              [tbl |-> "buf", fd |-> 3, handle |-> k]]
                          \o [k \in 1 .. (MAX_BUFFERS - 1) |->
                              [tbl |-> "fb", fd |-> 3, handle |-> FirstFbId + k - 1]]]
    /\ wide = FALSE
    /\ adding = [t \in Threads |-> NoAdd]
    /\ sigdisp = [sg \in Signals |->
                     IF sg \in TermSignals THEN "signal_handler" ELSE "SIG_DFL"]

\* handles and framebuffer ids around the prefilled ranges
TableHandles == {1, MAX_BUFFERS - 1, MAX_BUFFERS}

TableFbIds == {FirstFbId, FirstFbId + MAX_BUFFERS - 1}

NextTable ==
    \/ /\ hist.ops < MaxOps
       /\ UNCHANGED <<wide, adding>>
       /\ \E fd \in Channels :
            \/ \E F \in OneFault("OMAP_GEM_NEW") : \E gh \in GarbH(F) :
                 Ioctl_CREATE_DUMB(fd, Orig(800, 480, 32), F, gh, 0)
            \/ \E h \in TableHandles : Ioctl_DESTROY_DUMB(fd, h)
            \/ \E h \in TableHandles, F \in OneFault("ADDFB") :
                 Ioctl_ADDFB(fd, [handle |-> h, fb_id |-> 0], F)
            \/ \E id \in TableFbIds : Ioctl_RMFB(fd, id)
    \/ Exit /\ UNCHANGED <<wide, adding>>

SpecTable == InitTable /\ [][NextTable]_vars

\* ------------------------------------------------------------------------
\* The program with an application that sets signal handlers
\* ------------------------------------------------------------------------
\* the signals the application sets and receives
AppSignals == {"SIGTERM", "SIGINT", "SIGUSR1"}

\* the handlers it passes
AppHandlers == {"SIG_DFL", "SIG_IGN", "app"}

NextSignal ==
    \/ /\ hist.ops < MaxOps
       /\ UNCHANGED <<wide, adding>>
       /\ \E fd \in Channels : Ioctl_other(fd, "OTHER", 0, NoFaults)
    \/ /\ hist.ops < MaxOps
       /\ UNCHANGED <<wide, adding>>
       /\ \E sg \in AppSignals, h \in AppHandlers : Call_signal(sg, h)
    \/ /\ hist.ops < MaxOps
       /\ UNCHANGED <<wide, adding>>
       /\ \E sg \in AppSignals, h \in AppHandlers : Call_sigaction(sg, h)
    \/ \E sg \in AppSignals : Deliver(sg) /\ UNCHANGED <<wide, adding>>
    \/ Exit /\ UNCHANGED <<wide, adding>>

SpecSignal == Init /\ [][NextSignal]_vars

\* ------------------------------------------------------------------------
\* ioctl(DRM_IOCTL_MODE_CREATE_DUMB) on several threads, add_buffer() step
\* by step: the tables are plain globals and ioctl() takes no lock
\* ------------------------------------------------------------------------
InFlight == {t \in Threads : pc[t] # "idle"}

\* thread t enters ioctl() and runs the branch up to the call of add_buffer();
\* c: the finished allocation branch
AddEntered(t, fd, orig, c) ==
    /\ init_done' = 1
    /\ libc_ioctl' = "real"
    /\ open_buffers' = init(Tables).open_buffers
    /\ open_framebuffers' = init(Tables).open_framebuffers
    /\ handle_fd' = init(Tables).handle_fd
    /\ sigdisp' = init_signals(sigdisp)
    /\ errno' = c.cx.errno
    /\ drv' = c.cx.d
    /\ adding' = [adding EXCEPT ![t] =
                     [fd |-> fd, argIn |-> orig, argOut |-> c.orig,
                      result |-> c.result, handle |-> c.handle,
                      calls |-> c.cx.calls, rots |-> c.rots, i |-> 0]]
    /\ pc' = [pc EXCEPT ![t] = "add_scan"]
    /\ UNCHANGED <<cleanup_started, pstate, last, hist>>

AddEnter(t, fd, orig) ==
    /\ Running
    /\ pc[t] = "idle"
    /\ AddEntered(t, fd, orig, create_dumb(Cx0, NoFaults, fd, orig, 0, 0))

\* one iteration of the loop of add_buffer(): the test of slot i
AddScan(t) ==
    /\ Running
    /\ pc[t] = "add_scan"
    /\ IF adding[t].i >= MAX_BUFFERS
       THEN pc' = [pc EXCEPT ![t] = "add_ret"] /\ UNCHANGED adding
       ELSE IF open_buffers[adding[t].i].fd = -1
       THEN pc' = [pc EXCEPT ![t] = "add_fd"] /\ UNCHANGED adding
       ELSE /\ adding' = [adding EXCEPT ![t].i = @ + 1]
            /\ UNCHANGED pc
    /\ UNCHANGED <<init_done, libc_ioctl, open_buffers, open_framebuffers,
                   handle_fd, cleanup_started, errno, drv, pstate, last, hist,
                   sigdisp>>

\* open_buffers[i].fd = fd
AddWriteFd(t) ==
    /\ Running
    /\ pc[t] = "add_fd"
    /\ open_buffers' = [open_buffers EXCEPT ![adding[t].i].fd = adding[t].fd]
    /\ pc' = [pc EXCEPT ![t] = "add_handle"]
    /\ UNCHANGED <<init_done, libc_ioctl, open_framebuffers, handle_fd,
                   cleanup_started, errno, drv, pstate, last, hist, adding,
                   sigdisp>>

\* open_buffers[i].handle = handle; return
AddWriteHandle(t) ==
    /\ Running
    /\ pc[t] = "add_handle"
    /\ open_buffers' = [open_buffers EXCEPT ![adding[t].i].handle = adding[t].handle]
    /\ hist' = [hist EXCEPT !.adds = Append(@, [tbl |-> "buf", fd |-> adding[t].fd,
                                                handle |-> adding[t].handle])]
    /\ pc' = [pc EXCEPT ![t] = "add_ret"]
    /\ UNCHANGED <<init_done, libc_ioctl, open_framebuffers, handle_fd,
                   cleanup_started, errno, drv, pstate, last, adding, sigdisp>>

\* return result
AddReturn(t) ==
    /\ Running
    /\ pc[t] = "add_ret"
    /\ last' = [req |-> "CREATE_DUMB", fd |-> adding[t].fd,
                argIn |-> adding[t].argIn, argOut |-> adding[t].argOut,
                ret |-> adding[t].result, calls |-> adding[t].calls,
                rots |-> adding[t].rots]
    /\ hist' = [hist EXCEPT !.ops = @ + 1,
                            !.obliged = @ \cup
                                (IF adding[t].result = 0 /\ adding[t].i < MAX_BUFFERS
                                 THEN {<<adding[t].fd, adding[t].handle>>} ELSE {})]
    /\ adding' = [adding EXCEPT ![t] = NoAdd]
    /\ pc' = [pc EXCEPT ![t] = "idle"]
    /\ UNCHANGED <<init_done, libc_ioctl, open_buffers, open_framebuffers,
                   handle_fd, cleanup_started, errno, drv, pstate, sigdisp>>

NextAdd ==
    \/ /\ hist.ops + Cardinality(InFlight) < MaxOps
       /\ \E t \in Threads, fd \in Channels : AddEnter(t, fd, Orig(800, 480, 32))
       /\ UNCHANGED wide
    \/ \E t \in Threads : AddScan(t) /\ UNCHANGED wide
    \/ \E t \in Threads : AddWriteFd(t) /\ UNCHANGED wide
    \/ \E t \in Threads : AddWriteHandle(t) /\ UNCHANGED wide
    \/ \E t \in Threads : AddReturn(t) /\ UNCHANGED wide

SpecAdd == Init /\ [][NextAdd]_vars

\* ------------------------------------------------------------------------
\* Properties
\* ------------------------------------------------------------------------
\* the last step was an intercepted ioctl() that has returned
Called == last.req \notin {"none", "exit", "signal", "cleanup"}

\* the request code ioctl() delegates to the real entry point
Delegated(req) == IF req = "CREATE_DUMB" THEN "OMAP_GEM_NEW" ELSE req

\* destroy-buffer requests for the pair p = <<channel, handle>> that reached
\* the driver from the application's calls (by = "app") or from cleanup()
Times(by, p) == CopiesIn(<<by, p[1], p[2]>>, hist.destroys)

Full(tbl) == \A i \in Slots : tbl[i].fd # -1

Tracked(tbl, fd, handle) == \E i \in Slots : tbl[i] = [fd |-> fd, handle |-> handle]

\* C1: once cleanup has finished, every buffer that a successful allocation
\* created while the table had a free slot has seen exactly one destroy-buffer
\* request for its (channel, handle) pair: the application's or cleanup's,
\* never both and never none.  (Histories in which the application itself
\* destroys a pair twice are left aside.)
C1_DestroyedExactlyOnce ==
    pstate = "exited" =>
        \A p \in hist.obliged :
            Times("app", p) <= 1 => Times("app", p) + Times("cleanup", p) = 1

\* C2: the intercepted ioctl() returns the status the real entry point gave for
\* the delegated request, which is issued exactly once; for allocate-buffer
\* that is the tiled allocation, whatever the later requests of the call did.
C2_StatusOfDelegated ==
    Called =>
        \E i \in 1 .. Len(last.calls) :
            /\ last.calls[i].req = Delegated(last.req)
            /\ last.calls[i].fd = last.fd
            /\ last.ret = last.calls[i].st
            /\ \A j \in 1 .. Len(last.calls) :
                 last.calls[j].req = Delegated(last.req) => j = i

\* an allocation that succeeded although a later request of the same call failed
C2_Witness ==
    /\ last.req = "CREATE_DUMB" /\ last.ret = 0
    /\ \E i \in 2 .. Len(last.calls) : last.calls[i].st # 0
    /\ last.calls[Len(last.calls)].st # 0

\* C3: when the delegated request fails, errno on return from the intercepted
\* ioctl() is the value the driver set for that request; no later request of
\* the same call changes it.
C3_ErrnoOfDelegated ==
    (Called /\ last.ret # 0) => errno = DrvErrno(Delegated(last.req))

C5_DestroyUntracks ==
    /\ (last.req = "CREATE_DUMB" /\ last.ret = 0) =>
          (Tracked(open_buffers, last.fd, last.argOut.handle) \/ Full(open_buffers))
    /\ (last.req = "DESTROY_DUMB" /\ last.ret = 0) =>
          ~Tracked(open_buffers, last.fd, last.argIn)

\* C6: however many threads invoke cleanup(), the destructive body is entered
\* at most once.
C6_BodyOnce == hist.bodyRuns <= 1

\* removed[i]: the table after the removal of slot i's key
LiveSlots(tbl) == {i \in Slots : tbl[i].fd # -1}

Removable(tbl, removed) ==
    \A i \in LiveSlots(tbl) :
        \E j \in Slots :
            /\ tbl[j].handle = tbl[i].handle
            /\ removed[i] = [tbl EXCEPT ![j] = UnsetItem]

\* C7: a table never holds more than MAX_BUFFERS live entries, every live
\* entry can be removed by its key, and an add on a full table leaves every
\* slot as it was.
C7_FullAddDrops ==
    /\ [](/\ Cardinality(LiveSlots(open_buffers)) <= MAX_BUFFERS
          /\ Cardinality(LiveSlots(open_framebuffers)) <= MAX_BUFFERS
          /\ Removable(open_buffers,
                [i \in Slots |-> remove_buffer(open_buffers, open_buffers[i].handle)])
          /\ Removable(open_framebuffers,
                [i \in Slots |->
                    remove_framebuffer(open_framebuffers, open_framebuffers[i].handle)]))
    /\ [][/\ (Full(open_buffers) /\ hist'.ops # hist.ops /\ last'.req = "CREATE_DUMB")
               => open_buffers' = open_buffers
          /\ (Full(open_framebuffers) /\ hist'.ops # hist.ops /\ last'.req = "ADDFB")
               => open_framebuffers' = open_framebuffers]_vars

\* a successful allocation whose handle was dropped by the full table
C7_Witness ==
    /\ last.req = "CREATE_DUMB" /\ last.ret = 0
    /\ Full(open_buffers)
    /\ ~Tracked(open_buffers, last.fd, last.argOut.handle)

\* C8: on every reachable table and for every key, removing the key twice
\* gives the same table as removing it once, and removing a key that is not
\* tracked changes nothing.
C8_RemoveIdempotent ==
    init_done = 1 =>
        \A k \in AppHandles \cup AppFbIds :
            /\ remove_buffer(remove_buffer(open_buffers, k), k)
                  = remove_buffer(open_buffers, k)
            /\ remove_framebuffer(remove_framebuffer(open_framebuffers, k), k)
                  = remove_framebuffer(open_framebuffers, k)
            /\ (\A i \in Slots : open_buffers[i].handle # k)
                  => remove_buffer(open_buffers, k) = open_buffers
            /\ (\A i \in Slots : open_framebuffers[i].handle # k)
                  => remove_framebuffer(open_framebuffers, k) = open_framebuffers

\* the argument blocks a and b differ at most in mode.hdisplay / mode.vdisplay
SameButDisplay(a, b) ==
    /\ DOMAIN a = DOMAIN b
    /\ \A f \in DOMAIN a \ {"mode"} : a[f] = b[f]
    /\ DOMAIN a.mode = DOMAIN b.mode
    /\ \A f \in DOMAIN a.mode \ {"hdisplay", "vdisplay"} : a.mode[f] = b.mode[f]

Exchanged(a, b) ==
    /\ SameButDisplay(a, b)
    /\ b.mode.hdisplay = a.mode.vdisplay
    /\ b.mode.vdisplay = a.mode.hdisplay

\* C9: the block a mode-set request hands to the driver is the caller's with
\* hdisplay and vdisplay exchanged, the block a mode-get request returns is the
\* driver's with hdisplay and vdisplay exchanged, no other field differs, and
\* the exchange applied twice gives the mode back.
C9_DisplayExchanged ==
    /\ last.req = "SETCRTC" =>
          /\ Exchanged(last.argIn, last.calls[1].a)
          /\ last.argOut = last.calls[1].a
    /\ last.req = "GETCRTC" =>
          /\ last.calls[1].a = last.argIn
          /\ Exchanged(IF last.ret = 0 THEN last.calls[1].out ELSE last.argIn,
                       last.argOut)
    /\ last.req \in {"SETCRTC", "GETCRTC"} =>
          SwapDisplay(SwapDisplay(last.argIn)) = last.argIn

\* a mode-set request of a mode that is not square, accepted by the driver
C9_Witness ==
    /\ last.req = "SETCRTC" /\ last.ret = 0
    /\ last.argIn.mode.hdisplay # last.argIn.mode.vdisplay
    /\ drv.mode.mode.hdisplay = last.argIn.mode.vdisplay

\* the call log of one allocation, cut at the property listings: segment k is
\* what was asked of the driver for the k-th processed plane
ListingIdx(calls) == {i \in 1 .. Len(calls) : calls[i].req = "OBJ_GETPROPERTIES"}

NthListing(calls, k) ==
    CHOOSE i \in ListingIdx(calls) :
        Cardinality({j \in ListingIdx(calls) : j <= i}) = k

SegEnd(calls, k) ==
    IF k < Cardinality(ListingIdx(calls)) THEN NthListing(calls, k + 1) - 1
    ELSE Len(calls)

Seg(calls, k) == SubSeq(calls, NthListing(calls, k), SegEnd(calls, k))

Fetches(seg) == Cardinality({j \in 1 .. Len(seg) : seg[j].req = "GETPROPERTY"})

Commits(seg) == {j \in 1 .. Len(seg) : seg[j].req = "ATOMIC"}

\* discovery over the listed properties: n fetches were made, for the first n
\* listed properties in order, each but the last answered with a name other
\* than "rotation"; found is the n-th when it was answered "rotation"
DiscoveryOk(seg, props, n, rot_prop) ==
    /\ n <= Len(props)
    /\ \A j \in 1 .. n : seg[1 + j].req = "GETPROPERTY" /\ seg[1 + j].a = props[j]
    /\ \A j \in 1 .. (n - 1) : seg[1 + j].st = 0 /\ seg[1 + j].out # "rotation"
    /\ n < Len(props) =>
          /\ n >= 1
          /\ (seg[1 + n].st # 0 \/ seg[1 + n].out = "rotation")
    /\ IF n >= 1 /\ seg[1 + n].st = 0 /\ seg[1 + n].out = "rotation"
       THEN rot_prop = props[n]
       ELSE rot_prop < 0

PlaneOk(seg, rot) ==
    /\ seg[1].req = "OBJ_GETPROPERTIES" /\ seg[1].a = rot.plane
    /\ IF seg[1].st # 0 THEN rot.rot_prop < 0 /\ Fetches(seg) = 0
       ELSE DiscoveryOk(seg, seg[1].out, Fetches(seg), rot.rot_prop)
    /\ IF rot.rot_prop >= 0
       THEN /\ Commits(seg) = {Len(seg)}
            /\ seg[Len(seg)].a = [obj |-> rot.plane, prop |-> rot.rot_prop,
                                  value |-> DRM_MODE_ROTATE_270]
       ELSE Commits(seg) = {}
    /\ Len(seg) = 1 + Fetches(seg) + Cardinality(Commits(seg))

\* the answer to the plane enumeration of the last allocation
PlaneListing ==
    last.calls[CHOOSE i \in 1 .. Len(last.calls) :
                  last.calls[i].req = "GETPLANERESOURCES"]

\* C10: for each plane processed by an allocation, discovery gives the first
\* listed property named exactly "rotation" if every fetch before it succeeded,
\* and a negative value when the listing fails, a fetch fails before a match
\* or nothing matches; the atomic commit is issued exactly when discovery gave
\* a property; every plane the enumeration listed is processed, in order,
\* whatever happened to the planes before it.
C10_RotationPerPlane ==
    last.req = "CREATE_DUMB" =>
        /\ Cardinality(ListingIdx(last.calls)) = Len(last.rots)
        /\ \A k \in 1 .. Len(last.rots) : PlaneOk(Seg(last.calls, k), last.rots[k])
        /\ PlaneListing.st = 0 =>
              [k \in 1 .. Len(last.rots) |-> last.rots[k].plane] = PlaneListing.out

\* an allocation in which the commit for the first plane failed, the second
\* plane had no rotation property, and the last plane still got its commit
C10_Witness ==
    /\ last.req = "CREATE_DUMB"
    /\ Len(last.rots) = Len(DrvPlanes)
    /\ last.rots[1].rot_prop >= 0
    /\ last.rots[2].rot_prop < 0
    /\ last.rots[Len(DrvPlanes)].rot_prop >= 0
    /\ \E i \in 1 .. Len(last.calls) :
          /\ last.calls[i].req = "ATOMIC"
          /\ last.calls[i].a.obj = last.rots[1].plane
          /\ last.calls[i].st # 0
    /\ last.calls[Len(last.calls)].req = "ATOMIC"
    /\ last.calls[Len(last.calls)].a.obj = last.rots[Len(DrvPlanes)].plane

\* the k-th element of the set of slots S counted from the bottom / the top
NthUp(S, k) == CHOOSE i \in S : Cardinality({j \in S : j <= i}) = k

NthDown(S, k) == CHOOSE i \in S : Cardinality({j \in S : j >= i}) = k

TrackedFds == {i \in Slots : handle_fd[i] # -1}

\* the log of a cleanup body: n1 closes, n2 remove-framebuffer requests, n3
\* destroy-buffer requests and the sweep, each for its slot of the tables
BodyLog(calls, n1, n2, n3) ==
    /\ Len(calls) = n1 + n2 + n3 + SWEEP_FDS
    /\ \A k \in 1 .. n1 :
          /\ calls[k].req = "close"
          /\ calls[k].fd = handle_fd[NthUp(TrackedFds, k)]
    /\ \A k \in 1 .. n2 :
          /\ calls[n1 + k].req = "RMFB"
          /\ calls[n1 + k].fd = open_framebuffers[NthDown(LiveSlots(open_framebuffers), k)].fd
    /\ \A k \in 1 .. n3 :
          /\ calls[n1 + n2 + k].req = "DESTROY_DUMB"
          /\ calls[n1 + n2 + k].fd = open_buffers[NthDown(LiveSlots(open_buffers), k)].fd
          /\ calls[n1 + n2 + k].a = open_buffers[NthDown(LiveSlots(open_buffers), k)].handle
    /\ \A k \in 1 .. SWEEP_FDS :
          /\ calls[n1 + n2 + n3 + k].req = "close"
          /\ calls[n1 + n2 + n3 + k].fd = k - 1

\* C11: the cleanup body closes every tracked descriptor, then issues a
\* remove-framebuffer request for every tracked framebuffer, then a
\* destroy-buffer request for every tracked buffer, then closes descriptors
\* 0..127, in that order, and whatever the outcome of the earlier requests.
C11_PhasesInOrder ==
    (pstate = "exited" /\ last.req \in {"exit", "signal"}) =>
        BodyLog(last.calls, Cardinality(TrackedFds),
                Cardinality(LiveSlots(open_framebuffers)),
                Cardinality(LiveSlots(open_buffers)))

\* a body in which a remove-framebuffer request and a destroy-buffer request
\* failed and a later destroy-buffer request succeeded
C11_Witness ==
    /\ pstate = "exited"
    /\ \E i \in 1 .. Len(last.calls) :
          /\ last.calls[i].req = "RMFB" /\ last.calls[i].st # 0
          /\ \E j \in (i + 1) .. Len(last.calls) :
                /\ last.calls[j].req = "DESTROY_DUMB" /\ last.calls[j].st # 0
                /\ \E k \in (j + 1) .. Len(last.calls) :
                      last.calls[k].req = "DESTROY_DUMB" /\ last.calls[k].st = 0

IsRmfb(c) == c.req = "RMFB"

IsDestroy(c) == c.req = "DESTROY_DUMB"

\* the positions in the insertion history at which the entry was added
Insertions(tbl, fd, handle) ==
    {i \in 1 .. Len(hist.adds) :
        hist.adds[i] = [tbl |-> tbl, fd |-> fd, handle |-> handle]}

\* each request of seq is for an entry inserted after the entry of the next
\* request (entries inserted more than once are left aside)
NewestFirst(tbl, seq) ==
    \A k \in 1 .. (Len(seq) - 1) :
        (/\ Cardinality(Insertions(tbl, seq[k].fd, seq[k].a)) = 1
         /\ Cardinality(Insertions(tbl, seq[k + 1].fd, seq[k + 1].a)) = 1)
        => \A i \in Insertions(tbl, seq[k].fd, seq[k].a) :
              \A j \in Insertions(tbl, seq[k + 1].fd, seq[k + 1].a) : i > j

\* C12: cleanup issues the remove-framebuffer requests, and likewise the
\* destroy-buffer requests, in reverse insertion order: the entry added most
\* recently first, also after a removal whose slot a later add reused.
C12_ReverseInsertion ==
    (pstate = "exited" /\ last.req = "exit") =>
        /\ NewestFirst("fb", SelectSeq(last.calls, IsRmfb))
        /\ NewestFirst("buf", SelectSeq(last.calls, IsDestroy))

\* C13: once the cleanup flag is set, no intercepted call adds an entry to the
\* tracked-buffer, tracked-framebuffer or tracked-descriptor table: every slot
\* that is free when the call has gone through init() is free when it returns.
C13_NoAddWhileCleaning ==
    [][(cleanup_started = 1 /\ hist'.ops # hist.ops) =>
          \A i \in Slots :
              /\ init(Tables).open_buffers[i].fd = -1 => open_buffers'[i].fd = -1
              /\ init(Tables).open_framebuffers[i].fd = -1
                    => open_framebuffers'[i].fd = -1
              /\ init(Tables).handle_fd[i] = -1 => handle_fd'[i] = -1]_vars

\* C14: mutations of the tracking tables are serialized across threads: when
\* two threads have both finished the add of a successful allocation and
\* neither has returned, both handles are tracked, each in its own slot with
\* its own channel, under every interleaving of the two adds.
C14_AddsSerialized ==
    \A t1 \in Threads : \A t2 \in Threads \ {t1} :
        (/\ pc[t1] = "add_ret" /\ adding[t1].result = 0
         /\ pc[t2] = "add_ret" /\ adding[t2].result = 0)
        => \E i1 \in Slots : \E i2 \in Slots \ {i1} :
              /\ open_buffers[i1] = [fd |-> adding[t1].fd, handle |-> adding[t1].handle]
              /\ open_buffers[i2] = [fd |-> adding[t2].fd, handle |-> adding[t2].handle]

\* the step is the intercepted signal(signum, handler)
SignalCalled(signum, handler) ==
    /\ hist'.ops # hist.ops
    /\ last'.req = "signal()"
    /\ last'.argIn = [signum |-> signum, handler |-> handler]

\* C15: the shim never replaces a non-default handler of a termination-class
\* signal: initialisation redirects exactly those of the nine signals whose
\* disposition is the default and leaves the others alone; an intercepted
\* signal() with a non-default handler installs exactly that handler; the
\* shim's handler is installed only where the disposition is, or is being
\* set to, the default, and only for the nine signals.
C15_HandlerPolicy ==
    [][\A sg \in Signals :
          /\ (init_done = 0 /\ init_done' = 1) =>
                sigdisp'[sg] = IF sg \in TermSignals /\ sigdisp[sg] = "SIG_DFL"
                               THEN "signal_handler" ELSE sigdisp[sg]
          /\ (init_done = 1 /\ hist'.ops # hist.ops
                  /\ last'.req \notin {"signal()", "sigaction()"}) =>
                sigdisp'[sg] = sigdisp[sg]
          /\ \A h \in {"SIG_IGN", "app"} :
                SignalCalled(sg, h) => sigdisp' = [sigdisp EXCEPT ![sg] = h]
          /\ (sigdisp'[sg] = "signal_handler" /\ sigdisp[sg] # "signal_handler") =>
                /\ sg \in TermSignals
                /\ sigdisp[sg] = "SIG_DFL" \/ SignalCalled(sg, "SIG_DFL")]_vars

\* initialisation has run after the application installed its own handler for
\* one termination signal: that one is kept, another one is redirected
C15_Witness ==
    /\ init_done = 1
    /\ last.req = "OTHER"
    /\ hist.ops = 2
    /\ sigdisp["SIGTERM"] = "app"
    /\ sigdisp["SIGINT"] = "signal_handler"

\* whether the tiled allocation of an allocation's driver log failed
GemNewFailed(calls) ==
    \E i \in 1 .. Len(calls) : calls[i].req = "OMAP_GEM_NEW" /\ calls[i].st # 0

\* C16: a buffer handle is recorded only when the tiled allocation succeeded:
\* after an allocate-buffer request whose tiled allocation failed, the
\* tracked-buffer table is what it was before the request.
C16_TrackedOnlyOnSuccess ==
    [][(hist'.ops # hist.ops /\ last'.req = "CREATE_DUMB" /\ GemNewFailed(last'.calls))
          => open_buffers' = init(Tables).open_buffers]_vars

\* C17: the size written back by an allocate-buffer request is the
\* mathematical product of the pitch (2 or 4 times the fixed width) and the
\* requested height, without wrap-around modulo 2^32 (sizes in units of the
\* fixed width).
C17_SizeIsProduct ==
    last.req = "CREATE_DUMB" =>
        last.argOut.size_units =
            (IF last.argIn.bpp = 16 THEN 2 ELSE 4) * last.argIn.height

\* the entries of tbl that belong to another channel than fd
OfOtherChannel(tbl, fd) == {i \in Slots : tbl[i].fd \notin {-1, fd}}

\* C18: a destroy-buffer request on a channel never removes a tracked buffer
\* of another channel, and a remove-framebuffer request never removes a
\* tracked framebuffer of another channel, even when the handle values are
\* equal: every entry of another channel is unchanged by the request.
C18_OtherChannelKept ==
    [][/\ (hist'.ops # hist.ops /\ last'.req = "DESTROY_DUMB") =>
             \A i \in OfOtherChannel(init(Tables).open_buffers, last'.fd) :
                 open_buffers'[i] = init(Tables).open_buffers[i]
       /\ (hist'.ops # hist.ops /\ last'.req = "RMFB") =>
             \A i \in OfOtherChannel(init(Tables).open_framebuffers, last'.fd) :
                 open_framebuffers'[i] = init(Tables).open_framebuffers[i]]_vars

\* C19: when the process exits before any control request has initialised
\* the tracker, cleanup treats every slot as free: it closes no tracked
\* descriptor, issues no remove-framebuffer or destroy-buffer request, does
\* not call the unresolved real entry point, and only sweeps descriptors
\* 0..127.
C19_CleanupBeforeInit ==
    (init_done = 0 /\ last.req = "exit") =>
        /\ pstate = "exited"
        /\ BodyLog(last.calls, 0, 0, 0)

\* C20: an allocation processes only plane identifiers that a successful
\* plane enumeration wrote into the identifier buffer, at most PLANES_CAP of
\* them, and none when the enumeration failed.
C20_PlanesFromEnumeration ==
    last.req = "CREATE_DUMB" =>
        /\ Len(last.rots) <= PLANES_CAP
        /\ PlaneListing.st # 0 => Len(last.rots) = 0
        /\ PlaneListing.st = 0 =>
              \A k \in 1 .. Len(last.rots) :
                  /\ k <= Len(PlaneListing.out)
                  /\ last.rots[k].plane = PlaneListing.out[k]

====
